---- MODULE Spec2Model ----
(***************************************************************************)
(* dnsthing: a registry of running containers, kept in sync with the       *)
(* docker event stream and rendered into a managed section of a hosts      *)
(* file (src/dnsthing.py).                                                 *)
(*                                                                         *)
(* Text is modelled as sequences of tokens: a file is a sequence of        *)
(* tokens in which "\n" ends a line, a line is the sequence of tokens      *)
(* between two "\n".  The two marker strings, addresses, names and the     *)
(* domain are single tokens; " " and "\t" are whitespace tokens.           *)
(***************************************************************************)
EXTENDS Naturals, Sequences, FiniteSets, TLC

VARIABLES
    rt,          \* the docker daemon: container id -> [status, name, ns]
    events,      \* the subscribed event stream: events not yet consumed
    subscribed,  \* client.events() has been called
    args,        \* parse_args(): [domain, update_command]
    domain,      \* hostRegistry.domain
    onupdate,    \* hostRegistry.onupdate is set
    byid,        \* hostRegistry.byid
    byname,      \* hostRegistry.byname
    pc,          \* where run() stands
    ret,         \* where update_hosts returns to
    error,       \* the exception that left run(), "none" while it runs
    disk,        \* the hosts file's contents in the file system
    fbuf,        \* data written to the file object and not yet flushed
    lockHolder,  \* who holds the lockf lock on the hosts file
    file0,       \* history: the hosts file at start
    calls,       \* history: calls of update_hosts
    done,        \* history: renders completed (file written and closed)
    hooks,       \* history: invocations of onupdate
    steps        \* daemon steps left (bounds the run)

vars == <<rt, events, subscribed, args, domain, onupdate, byid, byname, pc, ret,
          error, disk, fbuf, lockHolder, file0, calls, done, hooks, steps>>

----------------------------------------------------------------------------
(* Bounds *)

\* daemon steps (container starts, deaths, renames, ...) in a run of Spec
MaxSteps == 3
\* lines of the initial hosts file in SpecFile
MaxFileLines == 3
\* daemon steps in a run of SpecFile
MaxFileSteps == 1

----------------------------------------------------------------------------
(* The docker daemon's containers *)

Ids == {"c1", "c2"}
Names == {"web", "db", "x"}
NetNames == {"app", "back"}

DefaultName(c) == IF c = "c1" THEN "web" ELSE "db"

Address(c, nw) ==
    CASE c = "c1" /\ nw = "app"  -> "10.0.0.2"
      [] c = "c2" /\ nw = "app"  -> "10.0.0.3"
      [] c = "c1" /\ nw = "back" -> "10.1.0.2"
      [] OTHER                   -> "10.1.0.3"

\* attrs['NetworkSettings'] without a 'Networks' key
NoNetworks == [k \in {} |-> 0]

\* the NetworkSettings a running container can have
StartSettings(c) ==
    { NoNetworks,
      [Networks |-> [n \in {} |-> ""]],
      [Networks |-> [n \in {"app"} |-> ""]],
      [Networks |-> [n \in {"app"} |-> Address(c, n)]],
      [Networks |-> [n \in {"app", "back"} |-> Address(c, n)]] }

\* a stopped container keeps its networks and loses its addresses
Blank(ns) ==
    IF "Networks" \in DOMAIN ns
    THEN [Networks |-> [n \in DOMAIN ns.Networks |-> ""]]
    ELSE ns

Absent == [status |-> "absent", name |-> "", ns |-> NoNetworks]

NameFree(n) == \A c \in Ids : rt[c].status = "absent" \/ rt[c].name # n

Running == {c \in Ids : rt[c].status = "running"}

\* client.containers.get(id) / an element of client.containers.list():
\* the container object; its name may come with the API's leading "/"
Container(c, slash) ==
    [id    |-> c,
     name  |-> IF slash THEN <<"/", rt[c].name>> ELSE <<rt[c].name>>,
     attrs |-> [NetworkSettings |-> rt[c].ns]]

----------------------------------------------------------------------------
(* Text *)

hostfile_start_marker == "# === start dnsthing ==="
hostfile_end_marker == "# === end dnsthing ==="

Whitespace == {" ", "\t", "\n"}

RECURSIVE LStrip(_)
LStrip(l) ==
    IF l # <<>> /\ Head(l) \in Whitespace THEN LStrip(Tail(l)) ELSE l

RECURSIVE RStrip(_)
RStrip(l) ==
    IF l # <<>> /\ l[Len(l)] \in Whitespace
    THEN RStrip(SubSeq(l, 1, Len(l) - 1))
    ELSE l

\* str.strip()
Strip(l) == RStrip(LStrip(l))

\* the position of the first "\n" of f, 0 when there is none
FirstNewline(f) ==
    IF \E i \in 1..Len(f) : f[i] = "\n"
    THEN CHOOSE i \in 1..Len(f) : f[i] = "\n" /\ \A j \in 1..(i - 1) : f[j] # "\n"
    ELSE 0

\* f.readlines(): the lines of f, each with its line end
RECURSIVE ReadLines(_)
ReadLines(f) ==
    IF f = <<>> THEN <<>>
    ELSE LET k == FirstNewline(f) IN
         IF k = 0 THEN <<f>>
         ELSE <<SubSeq(f, 1, k)>> \o ReadLines(SubSeq(f, k + 1, Len(f)))

\* [l.strip() for l in f.readlines()]
StrippedLines(f) ==
    LET ls == ReadLines(f) IN [i \in 1..Len(ls) |-> Strip(ls[i])]

\* '\n'.join(lines)
RECURSIVE Join(_)
Join(lines) ==
    IF lines = <<>> THEN <<>>
    ELSE IF Len(lines) = 1 THEN lines[1]
    ELSE lines[1] \o <<"\n">> \o Join(Tail(lines))

\* list.index(x), 1-based; 0 stands for ValueError
Index(lines, x) ==
    IF \E i \in 1..Len(lines) : lines[i] = x
    THEN CHOOSE i \in 1..Len(lines) :
            lines[i] = x /\ \A j \in 1..(i - 1) : lines[j] # x
    ELSE 0

\* del lines[s - 1 : e] in Python's 0-based terms: the elements s..e go
\* (none when e < s)
DelSlice(lines, s, e) ==
    IF e < s THEN lines
    ELSE SubSeq(lines, 1, s - 1) \o SubSeq(lines, e + 1, Len(lines))

\* a variant that keeps the old section in place
RemoveSection_Keep(lines) == lines

\* a variant with the slice one short: the end marker stays
RemoveSection_OffByOne(lines) ==
    LET section_start == Index(lines, <<hostfile_start_marker>>)
        section_end   == Index(lines, <<hostfile_end_marker>>)
    IN  IF section_start = 0 \/ section_end = 0 THEN lines
        ELSE DelSlice(lines, section_start, section_end - 1)

\* a variant that repairs a lone start marker: it cuts from the marker on
RemoveSection_Repair(lines) ==
    LET section_start == Index(lines, <<hostfile_start_marker>>)
        section_end   == Index(lines, <<hostfile_end_marker>>)
    IN  IF section_start = 0 THEN lines
        ELSE IF section_end = 0 THEN SubSeq(lines, 1, section_start - 1)
        ELSE DelSlice(lines, section_start, section_end)

\* update_hosts: find the dnsthing section and remove it
RemoveSection(lines) ==
    LET section_start == Index(lines, <<hostfile_start_marker>>)
        section_end   == Index(lines, <<hostfile_end_marker>>)
    IN  IF section_start = 0 \/ section_end = 0 THEN lines
        ELSE DelSlice(lines, section_start, section_end)

\* '%s %s.%s.%s' % (address, name, nwname, self.domain)
EntryLine(address, name, nwname, dom) ==
    <<address, " ">> \o name \o <<".", nwname, ".", dom>>

\* the (name, nwname) pairs update_hosts iterates over
Pairs(bn) ==
    UNION {{<<n, w>> : w \in DOMAIN bn[n].networks} : n \in DOMAIN bn}

\* the orders in which the nested iteration over byname.items() and
\* data['networks'].items() can yield them: any order of the names, and
\* for each name any order of its networks
Orders(bn) ==
    LET P == Pairs(bn)
        N == Cardinality(P)
    IN  {s \in [1..N -> P] :
            /\ \A i, j \in 1..N : s[i] = s[j] => i = j
            /\ \A i, j, k \in 1..N :
                  (i < j /\ j < k /\ s[i][1] = s[k][1]) => s[j][1] = s[i][1]}

\* update_hosts: create the new dnsthing section
NewSection(bn, dom, ord) ==
    <<<<hostfile_start_marker>>>>
    \o [i \in 1..Len(ord) |->
          EntryLine(bn[ord[i][1]].networks[ord[i][2]], ord[i][1], ord[i][2], dom)]
    \o <<<<hostfile_end_marker>>>>

\* update_hosts: the lines of the new hosts file
NewHostsfile(f, bn, dom, ord) ==
    RemoveSection(StrippedLines(f)) \o NewSection(bn, dom, ord)

----------------------------------------------------------------------------
(* The registry *)

Put(d, k, v) == [x \in (DOMAIN d) \cup {k} |-> IF x = k THEN v ELSE d[x]]

Del(d, k) == [x \in (DOMAIN d) \ {k} |-> d[x]]

EmptyDict == [k \in {} |-> 0]

\* if name.startswith('/'): name = name[1:]
StripSlash(name) ==
    IF name # <<>> /\ Head(name) = "/" THEN Tail(name) ELSE name

\* a variant in which a second container takes over a registered name
Register_Overwrite(bi, bn, container) ==
    LET name == StripSlash(container.name)
        ns   == container.attrs.NetworkSettings
    IN  IF "Networks" \notin DOMAIN ns THEN [byid |-> bi, byname |-> bn]
        ELSE LET nws       == ns.Networks
                 addressed == {n \in DOMAIN nws : nws[n] # ""}
                 this      == [name     |-> name,
                               id       |-> container.id,
                               networks |-> [n \in addressed |-> nws[n]]]
             IN  IF addressed # {}
                 THEN [byid   |-> Put(bi, container.id, this),
                       byname |-> Put(bn, name, this)]
                 ELSE [byid |-> bi, byname |-> bn]

\* a variant that records every network, addressed or not
Register_Unaddressed(bi, bn, container) ==
    LET name == StripSlash(container.name)
        ns   == container.attrs.NetworkSettings
    IN  IF name \in DOMAIN bn THEN [byid |-> bi, byname |-> bn]
        ELSE IF "Networks" \notin DOMAIN ns THEN [byid |-> bi, byname |-> bn]
        ELSE LET this == [name     |-> name,
                          id       |-> container.id,
                          networks |-> ns.Networks]
             IN  [byid   |-> Put(bi, container.id, this),
                  byname |-> Put(bn, name, this)]

\* a variant that takes a registered name for stale and drops its record
Register_Renew(bi, bn, container) ==
    LET name == StripSlash(container.name)
        ns   == container.attrs.NetworkSettings
    IN  IF name \in DOMAIN bn
        THEN [byid |-> Del(bi, bn[name].id), byname |-> Del(bn, name)]
        ELSE IF "Networks" \notin DOMAIN ns THEN [byid |-> bi, byname |-> bn]
        ELSE LET nws       == ns.Networks
                 addressed == {n \in DOMAIN nws : nws[n] # ""}
                 this      == [name     |-> name,
                               id       |-> container.id,
                               networks |-> [n \in addressed |-> nws[n]]]
             IN  IF addressed # {}
                 THEN [byid   |-> Put(bi, container.id, this),
                       byname |-> Put(bn, name, this)]
                 ELSE [byid |-> bi, byname |-> bn]

\* register: the two maps after the call
Register(bi, bn, container) ==
    LET name == StripSlash(container.name)
        ns   == container.attrs.NetworkSettings
    IN  IF name \in DOMAIN bn THEN [byid |-> bi, byname |-> bn]
        ELSE IF "Networks" \notin DOMAIN ns THEN [byid |-> bi, byname |-> bn]
        ELSE LET nws       == ns.Networks
                 addressed == {n \in DOMAIN nws : nws[n] # ""}
                 this      == [name     |-> name,
                               id       |-> container.id,
                               networks |-> [n \in addressed |-> nws[n]]]
             IN  IF addressed # {}
                 THEN [byid   |-> Put(bi, container.id, this),
                       byname |-> Put(bn, name, this)]
                 ELSE [byid |-> bi, byname |-> bn]

\* unregister: the two maps after the call; raised when del self.byname[name]
\* raises KeyError (byid has lost the id by then)
Unregister(bi, bn, container) ==
    LET name == StripSlash(container.name)
    IN  IF container.id \in DOMAIN bi
        THEN IF name \in DOMAIN bn
             THEN [byid   |-> Del(bi, container.id),
                   byname |-> Del(bn, name),
                   raised |-> FALSE]
             ELSE [byid   |-> Del(bi, container.id),
                   byname |-> bn,
                   raised |-> TRUE]
        ELSE [byid |-> bi, byname |-> bn, raised |-> FALSE]

\* scan: register every container of the list, in the list's order
RECURSIVE RegisterAll(_, _, _)
RegisterAll(bi, bn, list) ==
    IF list = <<>> THEN [byid |-> bi, byname |-> bn]
    ELSE LET r == Register(bi, bn, Head(list))
         IN  RegisterAll(r.byid, r.byname, Tail(list))

\* the orders in which client.containers.list() can return the running
\* containers
Listings ==
    LET N == Cardinality(Running)
    IN  {s \in [1..N -> Running] : \A i, j \in 1..N : s[i] = s[j] => i = j}

----------------------------------------------------------------------------
(* Start-up: parse_args, main, hostRegistry.__init__ *)

\* parse_args: --domain (default 'docker') and --update-command (set or not);
\* the two command lines followed: no option, and both options
ArgSets ==
    { [domain |-> "docker", update_command |-> FALSE],
      [domain |-> "example.org", update_command |-> TRUE] }

\* main: the keyword arguments it builds for hostRegistry
RegistryArgs(a) ==
    IF a.update_command THEN [onupdate |-> TRUE] ELSE EmptyDict

\* hostRegistry.__init__(client, hostsfile, domain='docker', onupdate=None)
NewRegistry(kw) ==
    [domain   |-> IF "domain" \in DOMAIN kw THEN kw.domain ELSE "docker",
     onupdate |-> IF "onupdate" \in DOMAIN kw THEN kw.onupdate ELSE FALSE,
     byname   |-> EmptyDict,
     byid     |-> EmptyDict]

\* the hosts files Spec starts from: one without markers, one with a
\* section between other lines (the first of them indented)
SomeFiles ==
    { <<"a", "\n">>,
      <<" ", "a", "\n", hostfile_start_marker, "\n", "old", "\n",
        hostfile_end_marker, "\n", "b", "\n">> }

\* the lines SpecFile builds its hosts files from
FileLines ==
    { <<" ", "a">>, <<hostfile_start_marker>>, <<hostfile_end_marker>> }

\* every file of at most MaxFileLines of them, with and without a final "\n"
AllFiles ==
    LET seqs == UNION {[1..k -> FileLines] : k \in 0..MaxFileLines}
    IN  {Join(s) : s \in seqs} \cup {Join(s) \o <<"\n">> : s \in seqs}

InitProgram ==
    /\ args \in ArgSets
    /\ LET r == NewRegistry(RegistryArgs(args))
       IN  /\ domain = r.domain
           /\ onupdate = r.onupdate
           /\ byid = r.byid
           /\ byname = r.byname
    /\ events = <<>>
    /\ subscribed = FALSE
    /\ pc = "scan"
    /\ ret = "subscribe"
    /\ error = "none"
    /\ fbuf = <<>>
    /\ lockHolder = "none"
    /\ disk = file0
    /\ calls = 0
    /\ done = 0
    /\ hooks = 0

\* Spec: c1 runs, c2 runs or does not exist; a running container has its
\* default name and one network
Init ==
    /\ file0 \in SomeFiles
    /\ \E up \in {{"c1"}, Ids} :
          rt = [c \in Ids |->
                  IF c \in up
                  THEN [status |-> "running", name |-> DefaultName(c),
                        ns |-> [Networks |-> [n \in {"app"} |-> Address(c, n)]]]
                  ELSE Absent]
    /\ steps = MaxSteps
    /\ InitProgram

----------------------------------------------------------------------------
(* The docker daemon.  Its steps are what other docker clients make it do; *)
(* each emits an event to the stream once the stream is subscribed.  run() *)
(* reads the daemon's state where it lists, subscribes and takes an event  *)
(* with its container; update_hosts reads none of it, so a daemon step     *)
(* during update_hosts is the same step taken right after it, and the      *)
(* steps are taken at those three places only.                             *)

Event(type, action, id) == [Type |-> type, Action |-> action, id |-> id]

Emit(e) == events' = IF subscribed THEN Append(events, e) ELSE events

DaemonStep ==
    /\ steps > 0
    /\ pc \in {"scan", "subscribe", "idle"}
    /\ steps' = steps - 1
    /\ UNCHANGED <<subscribed, args, domain, onupdate, byid, byname, pc, ret,
                   error, disk, fbuf, lockHolder, file0, calls, done, hooks>>

\* the names docker run creates a container under: its default name, or
\* (--name) the name "web" once no container has it
RunNames(c) == {DefaultName(c), "web"}

\* docker run: a new container is created and started (docker rename gives
\* it any other name)
RtRun(c, n, ns) ==
    /\ DaemonStep
    /\ rt[c].status = "absent"
    /\ NameFree(n)
    /\ rt' = [rt EXCEPT ![c] = [status |-> "running", name |-> n, ns |-> ns]]
    /\ Emit(Event("container", "start", c))

\* docker start: a stopped container is started
RtStart(c, ns) ==
    /\ DaemonStep
    /\ rt[c].status = "exited"
    /\ rt' = [rt EXCEPT ![c].status = "running", ![c].ns = ns]
    /\ Emit(Event("container", "start", c))

\* the container's process exits
RtDie(c) ==
    /\ DaemonStep
    /\ rt[c].status = "running"
    /\ rt' = [rt EXCEPT ![c].status = "exited", ![c].ns = Blank(@)]
    /\ Emit(Event("container", "die", c))

\* docker rm: from then on inspecting the id fails with NotFound
RtRemove(c) ==
    /\ DaemonStep
    /\ rt[c].status = "exited"
    /\ rt' = [rt EXCEPT ![c] = Absent]
    /\ Emit(Event("container", "destroy", c))

\* docker rename
RtRename(c, n) ==
    /\ DaemonStep
    /\ rt[c].status # "absent"
    /\ rt[c].name # n
    /\ NameFree(n)
    /\ rt' = [rt EXCEPT ![c].name = n]
    /\ Emit(Event("container", "rename", c))

\* docker network create: an event that is not a container event
RtNetwork ==
    /\ DaemonStep
    /\ subscribed
    /\ UNCHANGED rt
    /\ Emit(Event("network", "create", "net"))

----------------------------------------------------------------------------
(* Another process that takes the same lock before it reads the file.  It *)
(* is followed where its lock meets update_hosts: when update_hosts is     *)
(* about to lock, and between its unlock and the close of the file.        *)

OtherLock ==
    /\ lockHolder = "none"
    /\ pc \in {"uh_lock", "uh_close"}
    /\ lockHolder' = "other"
    /\ UNCHANGED <<rt, events, subscribed, args, domain, onupdate, byid, byname,
                   pc, ret, error, disk, fbuf, file0, calls, done, hooks, steps>>

OtherUnlock ==
    /\ lockHolder = "other"
    /\ lockHolder' = "none"
    /\ UNCHANGED <<rt, events, subscribed, args, domain, onupdate, byid, byname,
                   pc, ret, error, disk, fbuf, file0, calls, done, hooks, steps>>

----------------------------------------------------------------------------
(* hostRegistry.run *)

\* an exception leaves run(); main catches ConnectionError only
Raise(e) ==
    /\ pc' = "crashed"
    /\ error' = e

\* client.containers.get(event['id']), with NotFound caught: container = {}
Get(c, slash) ==
    IF c \in Ids /\ rt[c].status # "absent" THEN Container(c, slash) ELSE EmptyDict

\* the call of update_hosts that ends scan, handle_start and handle_die
CallUpdateHosts(back) ==
    /\ pc' = "uh_open"
    /\ ret' = back
    /\ calls' = calls + 1

\* a variant of scan that leaves the render to the first event
Scan_NoRender ==
    /\ pc = "scan"
    /\ \E list \in Listings, slash \in BOOLEAN :
          LET r == RegisterAll(byid, byname,
                               [i \in 1..Len(list) |-> Container(list[i], slash)])
          IN  /\ byid' = r.byid
              /\ byname' = r.byname
    /\ pc' = "subscribe"
    /\ UNCHANGED <<rt, events, subscribed, args, domain, onupdate, ret, error,
                   disk, fbuf, lockHolder, file0, calls, done, hooks, steps>>

\* scan: list the running containers, register each, update_hosts
Scan ==
    /\ pc = "scan"
    /\ \E list \in Listings, slash \in BOOLEAN :
          LET r == RegisterAll(byid, byname,
                               [i \in 1..Len(list) |-> Container(list[i], slash)])
          IN  /\ byid' = r.byid
              /\ byname' = r.byname
    /\ CallUpdateHosts("subscribe")
    /\ UNCHANGED <<rt, events, subscribed, args, domain, onupdate, error, disk,
                   fbuf, lockHolder, file0, done, hooks, steps>>

\* for event in self.client.events(decode=True): the stream starts here
Subscribe ==
    /\ pc = "subscribe"
    /\ subscribed' = TRUE
    /\ pc' = "idle"
    /\ UNCHANGED <<rt, events, args, domain, onupdate, byid, byname, ret, error,
                   disk, fbuf, lockHolder, file0, calls, done, hooks, steps>>

NextEvent ==
    /\ pc = "idle"
    /\ events # <<>>
    /\ events' = Tail(events)

\* if event['Type'] != 'container': continue
EventNotContainer ==
    /\ NextEvent
    /\ Head(events).Type # "container"
    /\ UNCHANGED <<rt, subscribed, args, domain, onupdate, byid, byname, pc, ret,
                   error, disk, fbuf, lockHolder, file0, calls, done, hooks, steps>>

\* a variant that renders for every container event
EventNoHandler_Renders ==
    /\ NextEvent
    /\ Head(events).Type = "container"
    /\ Head(events).Action \notin {"start", "die"}
    /\ CallUpdateHosts("idle")
    /\ UNCHANGED <<rt, subscribed, args, domain, onupdate, byid, byname,
                   error, disk, fbuf, lockHolder, file0, done, hooks, steps>>

\* getattr(self, 'handle_%s' % event['Action'], None) is None
EventNoHandler ==
    /\ NextEvent
    /\ Head(events).Type = "container"
    /\ Head(events).Action \notin {"start", "die"}
    /\ UNCHANGED <<rt, subscribed, args, domain, onupdate, byid, byname, pc, ret,
                   error, disk, fbuf, lockHolder, file0, calls, done, hooks, steps>>

\* handle_start(event, container): register, then update_hosts; container.name
\* of the {} that stands for a container not found raises AttributeError
HandleStart ==
    /\ NextEvent
    /\ Head(events).Type = "container"
    /\ Head(events).Action = "start"
    /\ \E slash \in BOOLEAN :
          LET container == Get(Head(events).id, slash)
          IN  IF "name" \notin DOMAIN container
              THEN /\ Raise("AttributeError")
                   /\ UNCHANGED <<byid, byname, ret, calls>>
              ELSE LET r == Register(byid, byname, container)
                   IN  /\ byid' = r.byid
                       /\ byname' = r.byname
                       /\ CallUpdateHosts("idle")
                       /\ UNCHANGED error
    /\ UNCHANGED <<rt, subscribed, args, domain, onupdate, disk, fbuf,
                   lockHolder, file0, done, hooks, steps>>

\* handle_die(event, container): unregister, then update_hosts
HandleDie ==
    /\ NextEvent
    /\ Head(events).Type = "container"
    /\ Head(events).Action = "die"
    /\ \E slash \in BOOLEAN :
          LET container == Get(Head(events).id, slash)
          IN  IF "name" \notin DOMAIN container
              THEN /\ Raise("AttributeError")
                   /\ UNCHANGED <<byid, byname, ret, calls>>
              ELSE LET r == Unregister(byid, byname, container)
                   IN  /\ byid' = r.byid
                       /\ byname' = r.byname
                       /\ IF r.raised
                          THEN /\ Raise("KeyError")
                               /\ UNCHANGED <<ret, calls>>
                          ELSE /\ CallUpdateHosts("idle")
                               /\ UNCHANGED error
    /\ UNCHANGED <<rt, subscribed, args, domain, onupdate, disk, fbuf,
                   lockHolder, file0, done, hooks, steps>>

----------------------------------------------------------------------------
(* hostRegistry.update_hosts and lock_file *)

\* a variant that runs the callback although the render failed
RenderRaises_HookAnyway ==
    /\ Raise("IOError")
    /\ hooks' = IF onupdate THEN hooks + 1 ELSE hooks

\* an exception of the with block leaves update_hosts: the callback, which
\* follows the block, is not run
RenderRaises ==
    /\ Raise("IOError")
    /\ UNCHANGED hooks

\* open(fname, "r+")
UhOpen ==
    /\ pc = "uh_open"
    /\ pc' = "uh_lock"
    /\ UNCHANGED <<rt, events, subscribed, args, domain, onupdate, byid, byname,
                   ret, error, disk, fbuf, lockHolder, file0, calls, done, hooks,
                   steps>>

\* open fails: the file is missing or may not be opened for reading and writing
UhOpenFails ==
    /\ pc = "uh_open"
    /\ RenderRaises
    /\ UNCHANGED <<rt, events, subscribed, args, domain, onupdate, byid, byname,
                   ret, disk, fbuf, lockHolder, file0, calls, done, steps>>

\* fcntl.lockf(f, fcntl.LOCK_EX): blocks while another process holds the lock
UhLock ==
    /\ pc = "uh_lock"
    /\ lockHolder = "none"
    /\ lockHolder' = "self"
    /\ pc' = "uh_body"
    /\ UNCHANGED <<rt, events, subscribed, args, domain, onupdate, byid, byname,
                   ret, error, disk, fbuf, file0, calls, done, hooks, steps>>

\* lockf raises (no locks left, an interrupted call): open's with closes f
UhLockFails ==
    /\ pc = "uh_lock"
    /\ RenderRaises
    /\ UNCHANGED <<rt, events, subscribed, args, domain, onupdate, byid, byname,
                   ret, disk, fbuf, lockHolder, file0, calls, done, steps>>

\* the body of the with block: readlines, the new contents, seek, truncate,
\* write.  truncate empties the file; write hands the data to the file
\* object, which keeps it in its buffer (data shorter than the buffer) or
\* passes it on to the file (longer data)
UhBody ==
    /\ pc = "uh_body"
    /\ \E ord \in Orders(byname), through \in BOOLEAN :
          LET data == Join(NewHostsfile(disk, byname, domain, ord))
          IN  /\ disk' = IF through THEN data ELSE <<>>
              /\ fbuf' = IF through THEN <<>> ELSE data
    /\ pc' = "uh_unlock"
    /\ UNCHANGED <<rt, events, subscribed, args, domain, onupdate, byid, byname,
                   ret, error, lockHolder, file0, calls, done, hooks, steps>>

\* a variant of lock_file without its finally: the lock survives the
\* exception
UhWriteFails_KeepsLock ==
    /\ pc = "uh_body"
    /\ disk' = <<>>
    /\ RenderRaises
    /\ UNCHANGED <<rt, events, subscribed, args, domain, onupdate, byid, byname,
                   ret, fbuf, lockHolder, file0, calls, done, steps>>

\* write raises after truncate: lock_file's finally unlocks, f is closed
UhWriteFails ==
    /\ pc = "uh_body"
    /\ disk' = <<>>
    /\ lockHolder' = "none"
    /\ RenderRaises
    /\ UNCHANGED <<rt, events, subscribed, args, domain, onupdate, byid, byname,
                   ret, fbuf, file0, calls, done, steps>>

\* lock_file's finally: fcntl.lockf(f, fcntl.LOCK_UN)
UhUnlock ==
    /\ pc = "uh_unlock"
    /\ lockHolder' = "none"
    /\ pc' = "uh_close"
    /\ UNCHANGED <<rt, events, subscribed, args, domain, onupdate, byid, byname,
                   ret, error, disk, fbuf, file0, calls, done, hooks, steps>>

\* the end of open's with block: f is closed, which flushes its buffer
UhClose ==
    /\ pc = "uh_close"
    /\ disk' = disk \o fbuf
    /\ fbuf' = <<>>
    /\ done' = done + 1
    /\ pc' = "uh_hook"
    /\ UNCHANGED <<rt, events, subscribed, args, domain, onupdate, byid, byname,
                   ret, error, lockHolder, file0, calls, hooks, steps>>

\* the flush of close fails (no space left): the buffered data is lost
UhCloseFails ==
    /\ pc = "uh_close"
    /\ fbuf # <<>>
    /\ fbuf' = <<>>
    /\ RenderRaises
    /\ UNCHANGED <<rt, events, subscribed, args, domain, onupdate, byid, byname,
                   ret, disk, lockHolder, file0, calls, done, steps>>

\* if self.onupdate: self.onupdate(); then update_hosts returns
UhOnUpdate ==
    /\ pc = "uh_hook"
    /\ hooks' = IF onupdate THEN hooks + 1 ELSE hooks
    /\ pc' = ret
    /\ UNCHANGED <<rt, events, subscribed, args, domain, onupdate, byid, byname,
                   ret, error, disk, fbuf, lockHolder, file0, calls, done, steps>>

----------------------------------------------------------------------------

Next ==
    \/ \E c \in Ids : \E n \in RunNames(c), ns \in StartSettings(c) : RtRun(c, n, ns)
    \/ \E c \in Ids : \E ns \in StartSettings(c) : RtStart(c, ns)
    \/ \E c \in Ids : RtDie(c)
    \/ \E c \in Ids : RtRemove(c)
    \/ \E c \in Ids, n \in Names : RtRename(c, n)
    \/ RtNetwork
    \/ OtherLock
    \/ OtherUnlock
    \/ Scan
    \/ Subscribe
    \/ EventNotContainer
    \/ EventNoHandler
    \/ HandleStart
    \/ HandleDie
    \/ UhOpen
    \/ UhOpenFails
    \/ UhLock
    \/ UhLockFails
    \/ UhBody
    \/ UhWriteFails
    \/ UhUnlock
    \/ UhClose
    \/ UhCloseFails
    \/ UhOnUpdate

Spec == Init /\ [][Next]_vars

\* SpecFile: every hosts file of AllFiles; one container runs, the other
\* is stopped or does not exist; the command line is the one with both
\* options
InitFile ==
    /\ file0 \in AllFiles
    /\ \E other \in {Absent, [status |-> "exited", name |-> "db",
                              ns |-> [Networks |-> [n \in {"app"} |-> ""]]]} :
          rt = [c \in Ids |->
                  IF c = "c1"
                  THEN [status |-> "running", name |-> "web",
                        ns |-> [Networks |-> [n \in {"app"} |-> Address(c, n)]]]
                  ELSE other]
    /\ steps = MaxFileSteps
    /\ InitProgram
    /\ args.update_command

SpecFile == InitFile /\ [][Next]_vars

----------------------------------------------------------------------------
(* What the claims speak of *)

START == <<hostfile_start_marker>>
END == <<hostfile_end_marker>>

\* the lines of a file as written, without their line ends
Lines(f) ==
    LET ls == ReadLines(f)
    IN  [i \in 1..Len(ls) |->
            IF ls[i][Len(ls[i])] = "\n" THEN SubSeq(ls[i], 1, Len(ls[i]) - 1)
            ELSE ls[i]]

Count(lines, x) == Cardinality({i \in 1..Len(lines) : lines[i] = x})

Range(q) == {q[i] : i \in 1..Len(q)}

\* no marker line at all
NoMarkers(lines) == Count(lines, START) = 0 /\ Count(lines, END) = 0

\* one start marker, one end marker, in this order
OneSection(lines) ==
    /\ Count(lines, START) = 1
    /\ Count(lines, END) = 1
    /\ Index(lines, START) < Index(lines, END)

\* the lines between the markers of a file with one section
Between(lines) ==
    SubSeq(lines, Index(lines, START) + 1, Index(lines, END) - 1)

\* the lines the index stands for: one per name, network and address that
\* byname holds
IndexLines ==
    {EntryLine(byname[p[1]].networks[p[2]], p[1], p[2], domain) : p \in Pairs(byname)}

\* update_hosts has returned: after the scan's call, and between events
Rendered == pc \in {"subscribe", "idle"}

\* a is b with some elements left out
RECURSIVE IsSubseq(_, _)
IsSubseq(a, b) ==
    IF a = <<>> THEN TRUE
    ELSE IF b = <<>> THEN FALSE
    ELSE IF Head(a) = Head(b) THEN IsSubseq(Tail(a), Tail(b))
    ELSE IsSubseq(a, Tail(b))

\* the lines of a file that are outside its managed section; a file whose
\* markers are missing, alone or reversed has no section
Outside(lines) ==
    LET s == Index(lines, START)
        e == Index(lines, END)
    IN  IF s # 0 /\ e # 0 /\ s < e
        THEN SubSeq(lines, 1, s - 1) \o SubSeq(lines, e + 1, Len(lines))
        ELSE lines

\* run() takes the next event of the stream
Taken == pc = "idle" /\ events # <<>> /\ events' = Tail(events)

----------------------------------------------------------------------------
(* C1: started on a hosts file without markers or with one well-formed     *)
(* section (marker lines being told as update_hosts tells them, after      *)
(* stripping), whenever update_hosts has returned - after the scan and     *)
(* after each handled start or die event - the file holds one start marker *)
(* before one end marker, and the lines between them are exactly the lines *)
(* '<address> <name>.<network>.<domain>' of the entries of byname, each    *)
(* once.                                                                   *)
C1_SectionIsIndex ==
    (Rendered /\ (NoMarkers(StrippedLines(file0)) \/ OneSection(StrippedLines(file0))))
    => LET lines == Lines(disk)
       IN  /\ OneSection(lines)
           /\ Range(Between(lines)) = IndexLines
           /\ Len(Between(lines)) = Cardinality(IndexLines)

\* two containers on three networks are in the index after a second render
\* over a file that had a section
C1_Witness ==
    /\ pc = "idle"
    /\ done >= 2
    /\ OneSection(StrippedLines(file0))
    /\ Cardinality(DOMAIN byname) = 2
    /\ Cardinality(IndexLines) >= 3

----------------------------------------------------------------------------
(* C2: whatever the initial file, after each render every line that was    *)
(* outside its managed section is still in the file, in the same relative  *)
(* order.  The claim is taken at its weakest: a line counts as present     *)
(* when it is there without its surrounding whitespace, and stray marker   *)
(* lines are not asked for.                                                *)
C2_OutsideLinesKept ==
    Rendered
    => IsSubseq(SelectSeq(Outside(StrippedLines(file0)),
                          LAMBDA l : l # START /\ l # END),
                Lines(disk))

----------------------------------------------------------------------------
(* C3: when inspecting the container of a container event fails with       *)
(* NotFound, nothing escapes run(): the index is unchanged and the         *)
(* reconciler is ready for the next event.                                 *)
C3_NotFoundAbsorbed ==
    [][(/\ Taken
        /\ Head(events).Type = "container"
        /\ rt[Head(events).id].status = "absent")
       => (pc' = "idle" /\ error' = "none" /\ byid' = byid /\ byname' = byname)]_vars

----------------------------------------------------------------------------
(* C4: once a die event for an id of byid is processed, byid has no entry  *)
(* for the id and byname has none under the name the id was registered     *)
(* with, unless that entry is another id's.                                *)
C4_UnregisterComplete ==
    [][(/\ Taken
        /\ Head(events).Type = "container"
        /\ Head(events).Action = "die"
        /\ Head(events).id \in DOMAIN byid
        /\ pc' # "crashed")
       => LET id   == Head(events).id
              name == byid[id].name
          IN  /\ id \notin DOMAIN byid'
              /\ (name \in DOMAIN byname' => byname'[name].id # id)]_vars

----------------------------------------------------------------------------
(* C5: while run() is running byid and byname hold the same records: the   *)
(* record of each id is the record under its name, and the record of each  *)
(* name is the record of its id.                                           *)
C5_LockStep ==
    pc # "crashed"
    => /\ \A id \in DOMAIN byid :
             /\ byid[id].name \in DOMAIN byname
             /\ byname[byid[id].name] = byid[id]
       /\ \A name \in DOMAIN byname :
             /\ byname[name].id \in DOMAIN byid
             /\ byid[byname[name].id] = byname[name]

----------------------------------------------------------------------------
(* C6: the lock covers the whole read-modify-write: no other process holds *)
(* the lock while data written by update_hosts has not reached the         *)
(* truncated file.                                                         *)
C6_LockCoversWrite ==
    lockHolder = "other" => fbuf = <<>>

----------------------------------------------------------------------------
(* C7: every start or die container event brings exactly one call of       *)
(* update_hosts, nothing else brings one but the scan, and with a          *)
(* post-update action set it is invoked once per call, after the render    *)
(* of that call is complete.                                               *)
C7_OneRenderPerEvent ==
    [][/\ (Taken /\ Head(events).Type = "container"
                 /\ Head(events).Action \in {"start", "die"})
          => calls' = calls + 1
       /\ (calls' # calls)
          => \/ pc = "scan"
             \/ (Taken /\ Head(events).Type = "container"
                       /\ Head(events).Action \in {"start", "die"})
       /\ (hooks' # hooks) => (onupdate /\ hooks' = hooks + 1 /\ done = calls)
       /\ (Rendered' /\ onupdate) => hooks' = calls']_vars

----------------------------------------------------------------------------
(* C8: a render that fails - open, lockf, write or the flush of close      *)
(* raises - leaves run() with its exception, and the post-update action    *)
(* is not invoked for it: it has been invoked for the completed renders    *)
(* only.                                                                   *)
C8_FailedRenderNoHook ==
    error = "IOError"
    => /\ pc = "crashed"
       /\ calls = done + 1
       /\ hooks = IF onupdate THEN done ELSE 0

\* a render failed after an earlier one was complete and its action invoked
C8_Witness ==
    /\ error = "IOError"
    /\ onupdate
    /\ hooks >= 1

----------------------------------------------------------------------------
(* C9: every line rendered between the markers ends with the domain the    *)
(* program was started with (--domain, default 'docker').                  *)
C9_ConfiguredDomain ==
    Rendered
    => \A i \in 1..Len(Lines(disk)) :
          LET line == Lines(disk)[i]
          IN  (Len(line) = 7 /\ line[2] = " ") => line[7] = args.domain

----------------------------------------------------------------------------
(* What C10 says of a render over a file with one well-formed section: it  *)
(* removes the lines from the start marker to the end marker and nothing   *)
(* else, and appends the new section.  The lines `before' come first and   *)
(* those after the old end marker follow them, then the start marker, the  *)
(* lines of the index and the end marker; the file has one start marker    *)
(* and one end marker.                                                     *)
C10_Body(before) ==
    LET old   == StrippedLines(disk)
        s     == Index(old, START)
        e     == Index(old, END)
        after == SubSeq(old, e + 1, Len(old))
        new   == Lines(disk' \o fbuf')
        kept  == (s - 1) + Len(after)
    IN  /\ Len(new) >= kept + 2
        /\ SubSeq(new, 1, s - 1) = before
        /\ SubSeq(new, s, kept) = after
        /\ new[kept + 1] = START
        /\ new[Len(new)] = END
        /\ Range(SubSeq(new, kept + 2, Len(new) - 1)) = IndexLines
        /\ Count(new, START) = 1
        /\ Count(new, END) = 1

\* update_hosts reads a file with one section and writes the new file
RendersOverSection ==
    /\ pc = "uh_body"
    /\ pc' = "uh_unlock"
    /\ OneSection(StrippedLines(disk))

----------------------------------------------------------------------------
(* C11: a render over a file without a well-formed section - no marker at  *)
(* all, start markers only, end markers only, or the first end marker      *)
(* before the first start marker - raises nothing of its own (the only     *)
(* exception that can leave it is the write's), removes no line (each line *)
(* is there, in order, without its surrounding whitespace) and appends     *)
(* after them a section: the start marker, one line per entry of the       *)
(* index, the end marker.                                                  *)

\* the markers of the lines are missing, alone or reversed
NoSection(lines) ==
    LET s == Index(lines, START)
        e == Index(lines, END)
    IN  s = 0 \/ e = 0 \/ e < s

C11_AppendsSection ==
    [][(pc = "uh_body" /\ NoSection(StrippedLines(disk)))
       => /\ error' \in {"none", "IOError"}
          /\ pc' = "uh_unlock"
             => LET old == StrippedLines(disk)
                    new == Lines(disk' \o fbuf')
                    n   == Len(old)
                IN  /\ Len(new) >= n + 2
                    /\ SubSeq(new, 1, n) = old
                    /\ new[n + 1] = START
                    /\ new[Len(new)] = END
                    /\ Range(SubSeq(new, n + 2, Len(new) - 1)) = IndexLines
                    /\ Len(new) - n - 2 = Cardinality(IndexLines)]_vars

\* the first render is over a file with an end marker, then a line, then a
\* start marker, and the index holds a container
C11_Witness ==
    /\ pc = "uh_unlock"
    /\ done = 0
    /\ StrippedLines(file0) = <<END, <<"a">>, START>>
    /\ IndexLines # {}

----------------------------------------------------------------------------
(* C12: when a start or die event is handled for a container that is not   *)
(* registered and whose name is registered to another id, byid and byname  *)
(* stay as they are: the name still refers to the first container's        *)
(* record, and byid has no entry for the second id.                        *)

\* the event taken is a start or die event of a container the daemon knows
\* that is not in byid, while its name is registered to another id
SecondOfName ==
    /\ Taken
    /\ Head(events).Type = "container"
    /\ Head(events).Action \in {"start", "die"}
    /\ Head(events).id \in Ids
    /\ rt[Head(events).id].status # "absent"
    /\ Head(events).id \notin DOMAIN byid
    /\ <<rt[Head(events).id].name>> \in DOMAIN byname
    /\ byname[<<rt[Head(events).id].name>>].id # Head(events).id

C12_FirstKept ==
    [][SecondOfName
       => /\ byid' = byid
          /\ byname' = byname
          /\ byname'[<<rt[Head(events).id].name>>].id # Head(events).id
          /\ Head(events).id \notin DOMAIN byid']_vars

\* c1 is registered as web and renamed; c2 was run as web, its start event
\* and then its die event have been handled, and web is still c1's
C12_Witness ==
    /\ pc = "idle"
    /\ events = <<>>
    /\ calls = 3
    /\ rt["c2"].name = "web"
    /\ rt["c2"].status = "exited"
    /\ "c2" \notin DOMAIN byid
    /\ <<"web">> \in DOMAIN byname
    /\ byname[<<"web">>].id = "c1"
    /\ "c1" \in DOMAIN byid

----------------------------------------------------------------------------
(* C13: every record of byid and of byname has at least one network, and   *)
(* every address of it is a non-empty string; registering a container      *)
(* without network information, without networks or with empty addresses   *)
(* only - at the scan or for a start event - leaves both maps unchanged.   *)

\* the record has a network, and no network of it has an empty address
RecordAddressed(r) ==
    /\ DOMAIN r.networks # {}
    /\ \A n \in DOMAIN r.networks : r.networks[n] # ""

\* the daemon reports an address for the container
Addressed(c) ==
    /\ "Networks" \in DOMAIN rt[c].ns
    /\ \E n \in DOMAIN rt[c].ns.Networks : rt[c].ns.Networks[n] # ""

C13_AddressedOnly ==
    /\ [](/\ \A id \in DOMAIN byid : RecordAddressed(byid[id])
          /\ \A name \in DOMAIN byname : RecordAddressed(byname[name]))
    /\ [][/\ (/\ Taken
              /\ Head(events).Type = "container"
              /\ Head(events).Action = "start"
              /\ Head(events).id \in Ids
              /\ rt[Head(events).id].status # "absent"
              /\ ~Addressed(Head(events).id))
             => (byid' = byid /\ byname' = byname)
          /\ (pc = "scan" /\ pc' # "scan")
             => \A c \in Ids \ {id \in Ids : Addressed(id)} :
                   /\ (c \in DOMAIN byid' <=> c \in DOMAIN byid)
                   /\ \A name \in DOMAIN byname' :
                         (byname'[name].id = c) => (name \in DOMAIN byname)]_vars

\* the start event of c2, which runs on a network without an address, has
\* been handled: c2 is not registered, c1 is
C13_Witness ==
    /\ pc = "idle"
    /\ events = <<>>
    /\ calls = 2
    /\ rt["c2"].status = "running"
    /\ rt["c2"].ns = [Networks |-> [n \in {"app"} |-> ""]]
    /\ "c2" \notin DOMAIN byid
    /\ "c1" \in DOMAIN byid

----------------------------------------------------------------------------
(* C14: whatever the initial file, once two or more renders are complete   *)
(* the file holds the section of the latest render only: besides the       *)
(* marker lines the initial file had, one start marker and one end marker, *)
(* and no host entry that is not an entry of the index.                    *)

\* a line '<address> <name>.<network>.<domain>'
IsEntry(line) == Len(line) = 7 /\ line[2] = " "

C14_SectionsDoNotAccumulate ==
    (Rendered /\ done >= 2)
    => LET lines == Lines(disk)
           first == StrippedLines(file0)
       IN  /\ Count(lines, START) <= Count(first, START) + 1
           /\ Count(lines, END) <= Count(first, END) + 1
           /\ \A i \in 1..Len(lines) :
                 IsEntry(lines[i]) => lines[i] \in IndexLines

----------------------------------------------------------------------------
(* C15: update_hosts holds the lock only between its lockf(LOCK_EX) and    *)
(* lock_file's finally: when it has returned or an exception has left it,  *)
(* the process does not hold the lock, and an exception raised while the   *)
(* lock is held leaves with the lock released.                             *)
C15_LockReleased ==
    /\ [](lockHolder = "self" => pc \in {"uh_body", "uh_unlock"})
    /\ [][(lockHolder = "self" /\ error' # "none") => lockHolder' = "none"]_vars

\* the second render raised after it had taken the lock and truncated the
\* file, and the lock is free
C15_Witness ==
    /\ pc = "crashed"
    /\ error = "IOError"
    /\ done = 1
    /\ disk = <<>>
    /\ lockHolder = "none"

----------------------------------------------------------------------------
(* C16: taking an event that is not a container event, or a container      *)
(* event whose action is neither start nor die, changes neither byid nor   *)
(* byname nor the hosts file, calls neither update_hosts nor the           *)
(* post-update action, and leaves run() waiting for the next event.        *)
C16_OtherEventsIgnored ==
    [][(/\ Taken
        /\ \/ Head(events).Type # "container"
           \/ Head(events).Action \notin {"start", "die"})
       => /\ byid' = byid
          /\ byname' = byname
          /\ disk' = disk
          /\ fbuf' = fbuf
          /\ calls' = calls
          /\ hooks' = hooks
          /\ pc' = "idle"
          /\ error' = "none"]_vars

\* the only container has died and been removed; its die event was handled
\* (the one call after the scan's), so its removal came after the stream
\* was subscribed, and the destroy event has been taken
C16_Witness ==
    /\ pc = "idle"
    /\ events = <<>>
    /\ calls = 2
    /\ rt["c1"] = Absent
    /\ rt["c2"] = Absent

----------------------------------------------------------------------------
(* C17: the scan registers the running containers the daemon lists - each  *)
(* one that has an address, under its name, with its addressed networks -  *)
(* and calls update_hosts once, also when none runs; the stream is         *)
(* subscribed after that one render is complete, and no event is taken     *)
(* before.                                                                 *)

\* the record register makes of a running container
RecordOf(c) ==
    [name     |-> <<rt[c].name>>,
     id       |-> c,
     networks |-> LET nws == rt[c].ns.Networks
                  IN  [n \in {k \in DOMAIN nws : nws[k] # ""} |-> nws[n]]]

C17_ScanRendersOnce ==
    /\ [](/\ pc = "scan" => (calls = 0 /\ byid = EmptyDict /\ byname = EmptyDict)
          /\ ~subscribed => calls <= 1
          /\ pc = "subscribe" => (calls = 1 /\ done = 1)
          /\ subscribed => done >= 1)
    /\ [][/\ (pc = "scan" /\ pc' # "scan")
             => /\ calls' = 1
                /\ DOMAIN byid' = {c \in Running : Addressed(c)}
                /\ \A c \in DOMAIN byid' : byid'[c] = RecordOf(c)
                /\ DOMAIN byname' = {byid'[c].name : c \in DOMAIN byid'}
                /\ \A c \in DOMAIN byid' : byname'[byid'[c].name] = byid'[c]
          /\ Taken => (done >= 1 /\ subscribed)]_vars

\* the scan found two containers, its render is complete, and the first
\* event of the stream has been handled with a render of its own
C17_Witness ==
    /\ pc = "idle"
    /\ events = <<>>
    /\ calls = 2
    /\ done = 2
    /\ Cardinality(DOMAIN byid) = 2

----------------------------------------------------------------------------
(* C18: registering an id a second time with the same name and the same    *)
(* networks, its record still in both maps, leaves byid and byname as      *)
(* they are; and whatever a register did, the same register once more      *)
(* changes nothing.                                                        *)

\* the start event taken is of a container that exists
StartTaken ==
    /\ Taken
    /\ Head(events).Type = "container"
    /\ Head(events).Action = "start"
    /\ Head(events).id \in Ids
    /\ rt[Head(events).id].status # "absent"

\* the container is registered, with the name and the addresses it has now
RegisteredAsIs(c) ==
    /\ Addressed(c)
    /\ c \in DOMAIN byid
    /\ byid[c] = RecordOf(c)
    /\ byid[c].name \in DOMAIN byname
    /\ byname[byid[c].name] = byid[c]

C18_RegisterIdempotent ==
    [][StartTaken
       => /\ RegisteredAsIs(Head(events).id)
             => (byid' = byid /\ byname' = byname)
          /\ \A slash \in BOOLEAN :
                LET c == Container(Head(events).id, slash)
                    once == Register(byid, byname, c)
                IN  Register(once.byid, once.byname, c) = once]_vars

\* c1 was registered by the scan (its entry is in the file), has died
\* unnoticed and been started again with the same addresses, and its start
\* event has just been handled: c1 has been registered a second time
C18_Witness ==
    /\ pc = "uh_open"
    /\ ret = "idle"
    /\ calls = 2
    /\ steps >= 1
    /\ rt["c2"] = Absent
    /\ rt["c1"].status = "running"
    /\ RegisteredAsIs("c1")
    /\ \E i \in 1..Len(Lines(disk)) : Lines(disk)[i] \in IndexLines

----------------------------------------------------------------------------
(* C19: no start is lost at startup.  Taken where run() waits for events   *)
(* with none pending and none handled yet - from there nothing happens     *)
(* unless the daemon acts again, so what is missing then stays missing -   *)
(* every running container that has an address and whose name is not       *)
(* registered to another is in byid, and its lines are in the file.        *)
C19_NoStartLost ==
    (pc = "idle" /\ events = <<>> /\ calls = 1)
    => \A c \in Running :
          (Addressed(c) /\ <<rt[c].name>> \notin DOMAIN byname)
          => /\ c \in DOMAIN byid
             /\ \A n \in DOMAIN RecordOf(c).networks :
                   \E i \in 1..Len(Lines(disk)) :
                      Lines(disk)[i] = EntryLine(RecordOf(c).networks[n],
                                                 <<rt[c].name>>, n, domain)

----------------------------------------------------------------------------
(* C20: handling the die event of a container X the daemon still knows     *)
(* (unregister is called with it) leaves the byid entry and the byname     *)
(* entry of every other registered id as they were, whatever name the      *)
(* daemon reports for X by then; and when X is not in byid, both maps are  *)
(* unchanged and nothing is raised.                                        *)
C20_UnregisterOwnRecordOnly ==
    [][(/\ Taken
        /\ Head(events).Type = "container"
        /\ Head(events).Action = "die"
        /\ Head(events).id \in Ids
        /\ rt[Head(events).id].status # "absent")
       => LET X == Head(events).id
          IN  /\ \A id \in DOMAIN byid \ {X} :
                    id \in DOMAIN byid' /\ byid'[id] = byid[id]
              /\ \A name \in DOMAIN byname :
                    (byname[name].id # X)
                    => (name \in DOMAIN byname' /\ byname'[name] = byname[name])
              /\ (X \notin DOMAIN byid)
                 => (byid' = byid /\ byname' = byname /\ error' = "none")]_vars

====
